---------------------------- MODULE Spec2Model ----------------------------
(***************************************************************************)
(* mkdisk (src/util/mkdisk/src/main.rs): builds a bootable disk image.     *)
(*                                                                         *)
(* Config::new parses the command line (parse_size for -s), Config::exec   *)
(* creates a RamDisk, copies the bootloader into the leading sectors,      *)
(* writes the slot-0 partition descriptor, formats and mounts the FAT32    *)
(* partition, mirrors the host tree (recurse) and writes every sector to   *)
(* the output file.                                                        *)
(*                                                                         *)
(* The modules `disk` and `fs` (mod disk; mod fs;) are not part of the     *)
(* source at hand; their operations are modelled from the specification    *)
(* (sections 3, 4 and 8).                                                  *)
(*                                                                         *)
(* Byte strings are represented by what identifies them: a sector written  *)
(* from the bootloader is [off, n] (n bytes of the file starting at byte   *)
(* off, followed by 512 - n zero bytes); a data cluster of a file is       *)
(* <<path, k>> (the k-th cluster-sized chunk of that host file).           *)
(***************************************************************************)
EXTENDS Integers, Sequences, FiniteSets, TLC

(***************************************************************************)
(* Bounds of the model                                                     *)
(***************************************************************************)
\* longest unit suffix of a -s argument that is enumerated
MaxSuffixLen == 3
\* largest disk (in sectors) whose construction is explored
MaxSectors == 132
\* read() calls on the bootloader that return fewer bytes than available
MaxShortReads == 1

(***************************************************************************)
(* Program constants                                                       *)
(***************************************************************************)
SectorSize == 512
MinSectors == 128
PartitionStart == 64

(***************************************************************************)
(* Characters and strings.  A string is a sequence of characters; "sup2"   *)
(* stands for U+00B2, a character for which char::is_numeric is true and   *)
(* which str::parse::<usize> rejects.                                      *)
(***************************************************************************)
AsciiDigits == {"0", "1", "2", "3", "4", "5", "6", "7", "8", "9"}

DigitVal(c) ==
    CASE c = "0" -> 0 [] c = "1" -> 1 [] c = "2" -> 2 [] c = "3" -> 3
      [] c = "4" -> 4 [] c = "5" -> 5 [] c = "6" -> 6 [] c = "7" -> 7
      [] c = "8" -> 8 [] c = "9" -> 9

\* char::is_numeric: Unicode categories Nd, Nl, No
IsNumeric(c) == c \in AsciiDigits \cup {"sup2"}

\* char::to_lowercase on the characters of the model
ToLowerChar(c) ==
    CASE c = "K" -> "k" [] c = "M" -> "m" [] c = "I" -> "i" [] c = "B" -> "b"
      [] c = "G" -> "g" [] OTHER -> c

\* a comparison that forgets to fold the case
ToLowercase_Identity(s) == s

ToLowercase(s) == [k \in 1..Len(s) |-> ToLowerChar(s[k])]

RECURSIVE TakeWhileNumeric(_)
TakeWhileNumeric(s) ==
    IF s = <<>> \/ ~IsNumeric(Head(s)) THEN <<>>
    ELSE <<Head(s)>> \o TakeWhileNumeric(Tail(s))

RECURSIVE SkipWhileNumeric(_)
SkipWhileNumeric(s) ==
    IF s = <<>> \/ ~IsNumeric(Head(s)) THEN s
    ELSE SkipWhileNumeric(Tail(s))

RECURSIVE DecimalValue(_)
DecimalValue(s) ==
    IF s = <<>> THEN 0
    ELSE 10 * DecimalValue(SubSeq(s, 1, Len(s) - 1)) + DigitVal(s[Len(s)])

\* str::parse::<usize>: Err on the empty string and on any non-ASCII digit
ParseUsize(s) ==
    IF s = <<>> \/ \E k \in 1..Len(s) : s[k] \notin AsciiDigits
    THEN [ok |-> FALSE, val |-> 0]
    ELSE [ok |-> TRUE, val |-> DecimalValue(s)]

\* the table with the value the test expects for mib (2 << 20)
UNITS_AsTested ==
    << <<(<<"k", "b">>), 1000>>,    <<(<<"k", "i", "b">>), 2^10>>,
       <<(<<"m", "b">>), 1000000>>, <<(<<"m", "i", "b">>), 2 * 2^20>> >>

\* const UNITS
UNITS == << <<(<<"k", "b">>), 1000>>,    <<(<<"k", "i", "b">>), 2^10>>,
            <<(<<"m", "b">>), 1000000>>, <<(<<"m", "i", "b">>), 2^20>> >>

\* the for loop over UNITS: the factor of the first entry whose suffix is unit
UnitFactor(unit) ==
    LET hits == {k \in 1..Len(UNITS) : UNITS[k][1] = unit}
    IN  IF hits = {} THEN 0
        ELSE UNITS[CHOOSE k \in hits : \A j \in hits : k <= j][2]

\* fn parse_size: [ok, val, why]; ok = FALSE is a panic.  The numbers of the
\* model stay far below usize::MAX, so num *= factor never overflows here.
parse_size(s) ==
    LET num  == ParseUsize(TakeWhileNumeric(s))
        unit == ToLowercase(SkipWhileNumeric(s))
    IN  IF ~num.ok THEN [ok |-> FALSE, val |-> 0, why |-> "Unable to interpret size"]
        ELSE IF UnitFactor(unit) = 0
             THEN [ok |-> FALSE, val |-> 0, why |-> "Unknown unit suffix"]
             ELSE [ok |-> TRUE, val |-> num.val * UnitFactor(unit), why |-> ""]


(***************************************************************************)
(* Sequences and paths.  A path is the sequence of its components; the     *)
(* path of the source root relative to itself is <<>>.                     *)
(***************************************************************************)
Last(s) == s[Len(s)]
Front(s) == SubSeq(s, 1, Len(s) - 1)
CeilDiv(a, b) == (a + b - 1) \div b
Min(a, b) == IF a <= b THEN a ELSE b
Range(s) == {s[k] : k \in 1..Len(s)}

(***************************************************************************)
(* Virtual Disk (mod disk, specification 3 and 4.1).  A RamDisk of         *)
(* `sectors` zero-filled sectors; only the sectors that were written are   *)
(* kept, every other sector reads as zeros.                                *)
(***************************************************************************)
ZeroSector == [off |-> 0, n |-> 0]

ReadSector(d, idx) == IF idx \in DOMAIN d THEN d[idx] ELSE ZeroSector

\* write_sector(index, bytes): out of range is an error and writes nothing
WriteSectorOk(count, idx) == idx < count

WriteSector(d, count, idx, bytes) ==
    IF WriteSectorOk(count, idx)
    THEN [k \in DOMAIN d \cup {idx} |-> IF k = idx THEN bytes ELSE d[k]]
    ELSE d

(***************************************************************************)
(* Partition Table Codec (mod disk, specification 3 and 4.2).  The four    *)
(* descriptor slots live at fixed offsets of sector 0 (legacy MBR: 16      *)
(* bytes each from byte 446).  A slot is of kind "empty" (zeros), "raw"    *)
(* (bytes written as part of a whole sector) or "desc" (a descriptor).     *)
(***************************************************************************)
Slots == 0..3
SlotOffset(slot) == 446 + 16 * slot
EmptySlot == [kind |-> "empty"]
RawSlot == [kind |-> "raw"]
Descriptor(d) == [kind |-> "desc", format |-> d.format, start |-> d.start,
                  size |-> d.size, bootable |-> d.bootable]
EmptyTable == [s \in Slots |-> EmptySlot]

\* what a whole-sector write of sector 0 leaves in the slots
TableAfterSectorWrite(bytes) ==
    [s \in Slots |-> IF bytes.n > SlotOffset(s) THEN RawSlot ELSE EmptySlot]

\* set_pinfo(disk, slot, descriptor): Err on a bad slot or start + size > count
SetPinfoOk(count, slot, d) ==
    slot \in Slots /\ d.start >= 0 /\ d.size >= 0 /\ d.start + d.size <= count

\* get_partition(disk, slot): Err on an empty or unrecognized slot, or bad bounds
GetPartitionOk(count, table, slot) ==
    /\ slot \in Slots
    /\ table[slot].kind = "desc"
    /\ table[slot].format = "Fat32"
    /\ table[slot].start + table[slot].size <= count

(***************************************************************************)
(* FAT32 Formatter (mod fs::fat, specification 3 and 4.3)                  *)
(***************************************************************************)
ReservedSectors == 32
NumFats == 2
RootCluster == 2
\* end-of-chain and reserved marks of the 32-bit FAT entries
EOC == 268435455
FatReserved == 268435448

\* monotonic size-to-cluster-size table (sectors per cluster)
SectorsPerCluster(psize) ==
    IF psize <= 532480 THEN 1
    ELSE IF psize <= 16777216 THEN 8 ELSE 16

\* the geometry format() derives for a partition of psize sectors
Geometry(psize) ==
    LET spc == SectorsPerCluster(psize)
        est == CeilDiv(psize, spc)
        spf == CeilDiv((est + 2) * 4, SectorSize)
        dat == psize - ReservedSectors - NumFats * spf
    IN  [spc |-> spc, spf |-> spf,
         nclusters |-> IF dat > 0 THEN dat \div spc ELSE 0]

\* format fails when there is no room for reserved + FAT + root directory
FormatOk(psize) == Geometry(psize).nclusters >= 1

Clusters(vol) == RootCluster..(vol.nclusters + 1)
ClusterBytes(vol) == vol.spc * SectorSize

\* the FAT format() writes: clusters 0/1 reserved, the root directory one
\* cluster terminated by EOC, everything else free
FormatFat(vol) ==
    [c \in 0..(vol.nclusters + 1) |->
        IF c < RootCluster THEN FatReserved
        ELSE IF c = RootCluster THEN EOC ELSE 0]

FormatDirs == [c \in {RootCluster} |-> <<>>]


(***************************************************************************)
(* FAT32 Filesystem Writer (mod fs, specification 3 and 4.4).  The state   *)
(* of a mounted filesystem is st = [fat, dirs, cdata, cursor]: the FAT,    *)
(* the entries of every directory by its start cluster, the content of     *)
(* every file cluster, and the free-cluster search cursor.                 *)
(***************************************************************************)
NoFs == [fat |-> <<>>, dirs |-> <<>>, cdata |-> <<>>, cursor |-> 0]

MountFs(vol) ==
    [fat |-> FormatFat(vol), dirs |-> FormatDirs, cdata |-> <<>>,
     cursor |-> RootCluster]

\* the clusters in the order the linear scan visits them from the cursor
ScanSeq(vol, cursor) ==
    [k \in 1..vol.nclusters |->
        RootCluster + ((cursor - RootCluster + k - 1) % vol.nclusters)]

FreeInScan(vol, st) ==
    LET IsFree(c) == st.fat[c] = 0
    IN  SelectSeq(ScanSeq(vol, st.cursor), IsFree)

FreeCount(vol, st) == Cardinality({c \in Clusters(vol) : st.fat[c] = 0})

\* an allocation that takes the next n clusters without reading the FAT
Alloc_NoFreeCheck(vol, st, n) ==
    IF vol.nclusters < n THEN [ok |-> FALSE, chain |-> <<>>]
    ELSE [ok |-> TRUE, chain |-> SubSeq(ScanSeq(vol, st.cursor), 1, n)]

\* the first n free clusters of the scan; <<>> with ok = FALSE if there are fewer
Alloc(vol, st, n) ==
    LET free == FreeInScan(vol, st)
    IN  IF Len(free) < n THEN [ok |-> FALSE, chain |-> <<>>]
        ELSE [ok |-> TRUE, chain |-> SubSeq(free, 1, n)]

\* the FAT with `chain` linked: each cluster to the next, the last to EOC
LinkChain(fat, chain) ==
    [c \in DOMAIN fat |->
        IF \E k \in 1..Len(chain) : chain[k] = c
        THEN LET k == CHOOSE j \in 1..Len(chain) : chain[j] = c
             IN  IF k = Len(chain) THEN EOC ELSE chain[k + 1]
        ELSE fat[c]]

\* the cursor after allocating `chain`: just past the last allocation
CursorAfter(vol, st, chain) ==
    IF chain = <<>> THEN st.cursor
    ELSE RootCluster + ((Last(chain) + 1 - RootCluster) % vol.nclusters)

\* index of the entry called name in a directory's entries, 0 if none
Lookup(entries, name) ==
    LET hits == {k \in 1..Len(entries) : entries[k].name = name}
    IN  IF hits = {} THEN 0 ELSE CHOOSE k \in hits : \A j \in hits : k <= j

\* the start cluster of the directory at `path` below cluster cl;
\* 0 when a component is missing or is not a directory
RECURSIVE ResolveDir(_, _, _)
ResolveDir(st, cl, path) ==
    IF path = <<>> THEN cl
    ELSE LET k == Lookup(st.dirs[cl], Head(path))
         IN  IF k = 0 \/ ~st.dirs[cl][k].isDir THEN 0
             ELSE ResolveDir(st, st.dirs[cl][k].start, Tail(path))

DirEntry(name, isDir, start, size) ==
    [name |-> name, isDir |-> isDir, start |-> start, size |-> size]

\* a new one-cluster directory c called name inside directory cl
AddDir(vol, st, cl, name, c) ==
    [fat    |-> LinkChain(st.fat, <<c>>),
     dirs   |-> (c :> <<DirEntry(".", TRUE, c, 0), DirEntry("..", TRUE, cl, 0)>>)
                @@ [st.dirs EXCEPT ![cl] = Append(@, DirEntry(name, TRUE, c, 0))],
     cdata  |-> st.cdata,
     cursor |-> CursorAfter(vol, st, <<c>>)]

\* make_dir(path): [res, st]
RECURSIVE MakeDirFrom(_, _, _, _)
MakeDirFrom(vol, st, cl, path) ==
    LET k == Lookup(st.dirs[cl], Head(path))
        a == Alloc(vol, st, 1)
    IN  IF k # 0
        THEN IF ~st.dirs[cl][k].isDir THEN [res |-> "NotADirectory", st |-> st]
             ELSE IF Len(path) = 1 THEN [res |-> "Collision", st |-> st]
             ELSE MakeDirFrom(vol, st, st.dirs[cl][k].start, Tail(path))
        ELSE IF ~a.ok THEN [res |-> "DiskFull", st |-> st]
             ELSE LET st2 == AddDir(vol, st, cl, Head(path), a.chain[1])
                  IN  IF Len(path) = 1 THEN [res |-> "Ok", st |-> st2]
                      ELSE MakeDirFrom(vol, st2, a.chain[1], Tail(path))

make_dir(vol, st, path) == MakeDirFrom(vol, st, RootCluster, path)

\* the file's clusters written and its directory entry appended
AddFile(vol, st, parent, path, size, chain) ==
    [fat    |-> LinkChain(st.fat, chain),
     dirs   |-> [st.dirs EXCEPT ![parent] =
                    Append(@, DirEntry(Last(path), FALSE,
                                       IF chain = <<>> THEN 0 ELSE chain[1], size))],
     cdata  |-> [c \in DOMAIN st.cdata \cup Range(chain) |->
                    IF c \in Range(chain)
                    THEN <<path, CHOOSE j \in 1..Len(chain) : chain[j] = c>>
                    ELSE st.cdata[c]],
     cursor |-> CursorAfter(vol, st, chain)]

\* a write_file that keeps the clusters it had claimed when the disk is full
write_file_NoRollback(vol, st, path, size) ==
    LET parent == ResolveDir(st, RootCluster, Front(path))
        a      == Alloc(vol, st, CeilDiv(size, ClusterBytes(vol)))
    IN  IF parent = 0 THEN [res |-> "NoParent", st |-> st]
        ELSE IF Lookup(st.dirs[parent], Last(path)) # 0
             THEN [res |-> "Collision", st |-> st]
        ELSE IF ~a.ok
             THEN [res |-> "DiskFull",
                   st |-> [st EXCEPT !.fat = LinkChain(st.fat, FreeInScan(vol, st))]]
        ELSE [res |-> "Ok", st |-> AddFile(vol, st, parent, path, size, a.chain)]

\* write_file(path, bytes), bytes being `size` bytes of the host file: [res, st]
write_file(vol, st, path, size) ==
    LET parent == ResolveDir(st, RootCluster, Front(path))
        a      == Alloc(vol, st, CeilDiv(size, ClusterBytes(vol)))
    IN  IF parent = 0 THEN [res |-> "NoParent", st |-> st]
        ELSE IF Lookup(st.dirs[parent], Last(path)) # 0
             THEN [res |-> "Collision", st |-> st]
        ELSE IF ~a.ok THEN [res |-> "DiskFull", st |-> st]
        ELSE [res |-> "Ok", st |-> AddFile(vol, st, parent, path, size, a.chain)]


(***************************************************************************)
(* Inputs of a run: the -s argument, what the host answers when the        *)
(* bootloader, the output file and the source directory are opened, the    *)
(* length of the bootloader, and the host tree below the source directory. *)
(* A tree is the set of its entries [path, kind, len, readable].           *)
(***************************************************************************)
SuffixChars == {"k", "K", "m", "M", "i", "I", "b", "B", "g"}
Suffixes == UNION {[1..n -> SuffixChars] : n \in 0..MaxSuffixLen}
SizePrefixes == {<<>>, <<"1">>, <<"4">>, <<"3", "5">>, <<"6", "4">>,
                 <<"6", "5">>, <<"6", "7">>, <<"sup2">>, <<"1", "sup2">>}
SizeStrings == {p \o x : p \in SizePrefixes, x \in Suffixes}

Size64KiB == <<"6", "4", "k", "i", "b">>
Size65KiB == <<"6", "5", "K", "i", "B">>
Size35kb == <<"3", "5", "k", "b">>

Dir(path) == [path |-> path, kind |-> "dir", len |-> 0, readable |-> TRUE]
File(path, len) == [path |-> path, kind |-> "file", len |-> len, readable |-> TRUE]
Unreadable(path) == [path |-> path, kind |-> "file", len |-> 0, readable |-> FALSE]
Other(path) == [path |-> path, kind |-> "other", len |-> 0, readable |-> TRUE]

TreeEndToEnd ==
    {Dir(<<"dir1">>), File(<<"dir1", "file1.bin">>, 3), Dir(<<"dir2">>)}
TreeDeep ==
    {Dir(<<"a">>), Dir(<<"a", "b">>), Dir(<<"a", "b", "c">>),
     File(<<"a", "b", "c", "hello.txt">>, 2), File(<<"a", "top.txt">>, 0),
     Other(<<"link">>), File(<<"root.bin">>, 513)}
TreeFull ==
    {File(<<"big1">>, 15 * 512), File(<<"big2">>, 10 * 512 + 1),
     File(<<"big3">>, 4 * 512), File(<<"one">>, 1),
     Dir(<<"d">>), File(<<"d", "x">>, 600)}
TreeDirFull ==
    {File(<<"huge">>, 28 * 512), Dir(<<"z">>), Dir(<<"z", "y">>),
     File(<<"z", "y", "f">>, 1)}
TreeUnreadable ==
    {Dir(<<"a">>), File(<<"a", "f">>, 700), Unreadable(<<"locked">>)}
Trees == {TreeEndToEnd, TreeDeep, TreeFull, TreeDirFull, TreeUnreadable}

\* the entries read_dir yields for the directory at `dir`
Children(tree, dir) ==
    {e \in tree : Len(e.path) = Len(dir) + 1 /\ Front(e.path) = dir}

BootLens == {0, 1, 446, 447, 511, 512, 513, 1024, 1025,
             63 * 512 + 1, 64 * 512, 64 * 512 + 1, 66 * 512, 134 * 512}
DefaultInput ==
    [size |-> Size64KiB, bootOpen |-> "ok", outCreate |-> TRUE, srcKind |-> "dir",
     bootLen |-> 512, tree |-> TreeEndToEnd, shorts |-> 0, faults |-> 0]

ParseInputs == {[DefaultInput EXCEPT !.size = s] : s \in SizeStrings}
ConfigInputs ==
    {[DefaultInput EXCEPT !.size = s, !.bootOpen = b, !.outCreate = o, !.srcKind = k] :
        s \in {Size64KiB, Size65KiB, Size35kb}, b \in {"ok", "empty", "err"},
        o \in BOOLEAN, k \in {"dir", "file", "missing"}}
\* short reads are explored on bootloaders of at most two sectors and a byte
BootInputsAll ==
    {[DefaultInput EXCEPT !.bootLen = b, !.shorts = n, !.tree = {}] :
        b \in BootLens, n \in 0..MaxShortReads}
BootInputs ==
    {x \in BootInputsAll : x.bootLen <= 2 * SectorSize + 1 \/ x.shorts = 0}
TreeInputs == {[DefaultInput EXCEPT !.tree = t] : t \in Trees}
\* the output file fails or writes short at most once in a run
WriteFaults == {0, 1}
SerialInputs ==
    {[DefaultInput EXCEPT !.faults = n, !.tree = {}] : n \in WriteFaults}
    \cup {[DefaultInput EXCEPT !.size = Size65KiB, !.tree = {}]}

Inputs == ParseInputs \cup ConfigInputs \cup BootInputs \cup TreeInputs \cup SerialInputs


(***************************************************************************)
(* State                                                                   *)
(***************************************************************************)
VARIABLES
    input,      \* the inputs of the run (never changed)
    pc,         \* where main is: "new", "exec", "boot", "pinfo", "format",
                \* "mount", "recurse", "serialize", "done", "panic"
    err,        \* the panic message, "" while there is none
    dsize,      \* Config.dsize
    sectors,    \* exec's `sectors`; the RamDisk's sector count once created
    created,    \* RamDisk::new has run
    shortLeft,  \* short reads the bootloader file may still return
    faultLeft,  \* failing or short writes the output file may still return
    bootPos,    \* read position of Config.boot
    i,          \* exec's `i`: the index of the next bootloader sector
    disk,       \* the RamDisk's written sectors
    table,      \* the partition table slots of sector 0
    vol,        \* the geometry of the formatted partition
    fs,         \* the filesystem of the partition
    stack,      \* the activations of recurse: [dir, todo]
    calls,      \* the make_dir / write_file calls issued so far: [op, path, size, res]
    si,         \* the index of the next sector to serialize
    out,        \* the output file: extents [lo, hi, n] of sectors lo..hi, n bytes each
    outFaults   \* the sectors whose write failed or was short

vars == <<input, pc, err, dsize, sectors, created, shortLeft, faultLeft, bootPos, i,
          disk, table, vol, fs, stack, calls, si, out, outFaults>>

NoVol == [spc |-> 0, spf |-> 0, nclusters |-> 0]

Init ==
    /\ input \in Inputs
    /\ pc = "new"
    /\ err = ""
    /\ dsize = 0
    /\ sectors = 0
    /\ created = FALSE
    /\ shortLeft = input.shorts
    /\ faultLeft = input.faults
    /\ bootPos = 0
    /\ i = 0
    /\ disk = <<>>
    /\ table = EmptyTable
    /\ vol = NoVol
    /\ fs = NoFs
    /\ stack = <<>>
    /\ calls = <<>>
    /\ si = 0
    /\ out = <<>>
    /\ outFaults = {}

Panic(msg) == pc' = "panic" /\ err' = msg

(***************************************************************************)
(* Config::new                                                             *)
(***************************************************************************)
ConfigNew ==
    /\ pc = "new"
    /\ LET r == parse_size(input.size)
       IN  IF ~r.ok THEN Panic(r.why) /\ dsize' = dsize
           ELSE IF input.bootOpen = "empty"
                THEN Panic("Bootloader unspecified") /\ dsize' = dsize
           ELSE IF input.bootOpen = "err"
                THEN Panic("Unable to open bootloader") /\ dsize' = dsize
           ELSE IF ~input.outCreate
                THEN Panic("Unable to open output file") /\ dsize' = dsize
           ELSE pc' = "exec" /\ err' = err /\ dsize' = r.val
    /\ UNCHANGED <<input, sectors, created, shortLeft, faultLeft, bootPos, i, disk,
                   table, vol, fs, stack, calls, si, out, outFaults>>

(***************************************************************************)
(* Config::exec, up to RamDisk::new                                        *)
(***************************************************************************)
\* a check that only makes room for the preamble
RoomForFilesystem_Preamble(n) == n >= PartitionStart

\* assert!(sectors >= 128, "Minimum disk size is 64KiB")
RoomForFilesystem(n) == n >= MinSectors

ExecStart ==
    /\ pc = "exec"
    /\ dsize \div SectorSize <= MaxSectors
    /\ IF input.srcKind = "missing"
       THEN Panic("Unable to query source") /\ UNCHANGED <<sectors, created>>
       ELSE IF input.srcKind # "dir"
       THEN Panic("Source path is not a folder") /\ UNCHANGED <<sectors, created>>
       ELSE /\ sectors' = dsize \div SectorSize
            /\ IF RoomForFilesystem(sectors')
               THEN pc' = "boot" /\ err' = err /\ created' = TRUE
               ELSE Panic("Minimum disk size is 64KiB") /\ created' = created
    /\ UNCHANGED <<input, dsize, shortLeft, faultLeft, bootPos, i, disk, table, vol,
                   fs, stack, calls, si, out, outFaults>>

(***************************************************************************)
(* The bootloader copy loop: one iteration per step.  read() on a file may *)
(* return any number of bytes from 1 to what the buffer and the file       *)
(* allow, 0 at end of file, or an error.                                   *)
(***************************************************************************)
ReadAvail == Min(SectorSize, input.bootLen - bootPos)

\* the sizes a read() of the model returns: everything available, or short
ReadSizes ==
    {ReadAvail} \cup (IF shortLeft > 0 THEN {n \in {1, 511} : n < ReadAvail} ELSE {})

\* Ok(0) => break
BootEof ==
    /\ pc = "boot"
    /\ ReadAvail = 0
    /\ pc' = "pinfo"
    /\ UNCHANGED <<input, err, dsize, sectors, created, shortLeft, faultLeft, bootPos,
                   i, disk, table, vol, fs, stack, calls, si, out, outFaults>>

\* Ok(n) => disk.write_sector(i, &sector); i += 1  (the result is not looked at)
BootCopy ==
    /\ pc = "boot"
    /\ \E n \in ReadSizes :
        /\ n > 0
        /\ LET bytes == [off |-> bootPos, n |-> n]
           IN  /\ disk' = WriteSector(disk, sectors, i, bytes)
               /\ table' = IF i = 0 /\ WriteSectorOk(sectors, i)
                           THEN TableAfterSectorWrite(bytes) ELSE table
        /\ bootPos' = bootPos + n
        /\ shortLeft' = IF n < ReadAvail THEN shortLeft - 1 ELSE shortLeft
    /\ i' = i + 1
    /\ UNCHANGED <<input, pc, err, dsize, sectors, created, faultLeft, vol, fs, stack,
                   calls, si, out, outFaults>>

\* Err(e) => panic!
BootReadError ==
    /\ pc = "boot"
    /\ Panic("Unable to read bootloader")
    /\ UNCHANGED <<input, dsize, sectors, created, shortLeft, faultLeft, bootPos, i,
                   disk, table, vol, fs, stack, calls, si, out, outFaults>>

(***************************************************************************)
(* The partition descriptor, format and mount                              *)
(***************************************************************************)
\* a descriptor whose partition starts one sector early
PinfoOf_StartEarly(n) ==
    [format |-> "Fat32", size |-> n - PartitionStart, start |-> PartitionStart - 1,
     bootable |-> TRUE]

\* let pinfo = PartitionInfo { ... }
PinfoOf(n) ==
    [format |-> "Fat32", size |-> n - PartitionStart, start |-> PartitionStart,
     bootable |-> TRUE]

\* disk::set_pinfo(&mut disk, 0, &pinfo).unwrap()
SetPinfo ==
    /\ pc = "pinfo"
    /\ IF SetPinfoOk(sectors, 0, PinfoOf(sectors))
       THEN /\ table' = [table EXCEPT ![0] = Descriptor(PinfoOf(sectors))]
            /\ pc' = "format" /\ err' = err
       ELSE Panic("set_pinfo") /\ table' = table
    /\ UNCHANGED <<input, dsize, sectors, created, shortLeft, faultLeft, bootPos, i,
                   disk, vol, fs, stack, calls, si, out, outFaults>>

\* disk::get_partition(&mut disk, 0).unwrap(); fs::fat::format(..).unwrap()
Format ==
    /\ pc = "format"
    /\ IF ~GetPartitionOk(sectors, table, 0)
       THEN Panic("get_partition") /\ UNCHANGED <<vol, fs>>
       ELSE IF ~FormatOk(table[0].size)
       THEN Panic("format") /\ UNCHANGED <<vol, fs>>
       ELSE /\ vol' = Geometry(table[0].size)
            /\ fs' = [MountFs(vol') EXCEPT !.cursor = 0]
            /\ pc' = "mount" /\ err' = err
    /\ UNCHANGED <<input, dsize, sectors, created, shortLeft, faultLeft, bootPos, i,
                   disk, table, stack, calls, si, out, outFaults>>

\* disk::mount(&mut disk, 0).unwrap(); recurse(fs, &self.src, self.src.clone())
Mount ==
    /\ pc = "mount"
    /\ IF ~GetPartitionOk(sectors, table, 0) \/ vol.nclusters < 1
       THEN Panic("mount") /\ UNCHANGED <<fs, stack>>
       ELSE /\ fs' = [fs EXCEPT !.cursor = RootCluster]
            /\ stack' = <<[dir |-> <<>>, todo |-> Children(input.tree, <<>>)]>>
            /\ pc' = "recurse" /\ err' = err
    /\ UNCHANGED <<input, dsize, sectors, created, shortLeft, faultLeft, bootPos, i,
                   disk, table, vol, calls, si, out, outFaults>>


(***************************************************************************)
(* recurse: one step per item that read_dir yields, in whatever order the  *)
(* host enumerates them, and one step for the return of an activation.     *)
(***************************************************************************)
Top == stack[Len(stack)]

Call(op, path, size, res) == [op |-> op, path |-> path, size |-> size, res |-> res]

\* the activation on top with `item` consumed
Consumed(item) == [stack EXCEPT ![Len(stack)].todo = @ \ {item}]

\* a traversal that descends into a directory without creating it
RecurseDir_NoMakeDir ==
    /\ pc = "recurse" /\ stack # <<>>
    /\ \E item \in Top.todo :
        /\ item.kind = "dir"
        /\ stack' = Append(Consumed(item),
                           [dir |-> item.path, todo |-> Children(input.tree, item.path)])
    /\ UNCHANGED <<input, pc, err, dsize, sectors, created, shortLeft, faultLeft,
                   bootPos, i, disk, table, vol, fs, calls, si, out, outFaults>>

\* if ft.is_dir() { fs.make_dir(vpath).unwrap(); recurse(fs, src, rpath); }
RecurseDir ==
    /\ pc = "recurse" /\ stack # <<>>
    /\ \E item \in Top.todo :
        /\ item.kind = "dir"
        /\ LET r == make_dir(vol, fs, item.path)
           IN  /\ fs' = r.st
               /\ calls' = Append(calls, Call("make_dir", item.path, 0, r.res))
               /\ IF r.res = "Ok"
                  THEN /\ stack' = Append(Consumed(item),
                                          [dir |-> item.path,
                                           todo |-> Children(input.tree, item.path)])
                       /\ UNCHANGED <<pc, err>>
                  ELSE Panic(r.res) /\ stack' = stack
    /\ UNCHANGED <<input, dsize, sectors, created, shortLeft, faultLeft, bootPos, i,
                   disk, table, vol, si, out, outFaults>>

\* else if ft.is_file() { File::open; read_to_end; fs.write_file(vpath, &v); }
\* (the result of write_file is not looked at)
RecurseFile ==
    /\ pc = "recurse" /\ stack # <<>>
    /\ \E item \in Top.todo :
        /\ item.kind = "file"
        /\ IF ~item.readable
           THEN Panic("Cannot open file") /\ UNCHANGED <<fs, calls, stack>>
           ELSE LET r == write_file(vol, fs, item.path, item.len)
                IN  /\ fs' = r.st
                    /\ calls' = Append(calls, Call("write_file", item.path, item.len, r.res))
                    /\ stack' = Consumed(item)
                    /\ UNCHANGED <<pc, err>>
    /\ UNCHANGED <<input, dsize, sectors, created, shortLeft, faultLeft, bootPos, i,
                   disk, table, vol, si, out, outFaults>>

\* neither a directory nor a file: the item is skipped
RecurseOther ==
    /\ pc = "recurse" /\ stack # <<>>
    /\ \E item \in Top.todo :
        /\ item.kind \notin {"dir", "file"}
        /\ stack' = Consumed(item)
    /\ UNCHANGED <<input, pc, err, dsize, sectors, created, shortLeft, faultLeft,
                   bootPos, i, disk, table, vol, fs, calls, si, out, outFaults>>

\* the for loop of an activation ends; the outermost return leads to serialization
RecurseReturn ==
    /\ pc = "recurse" /\ stack # <<>>
    /\ Top.todo = {}
    /\ stack' = Front(stack)
    /\ pc' = IF Len(stack) = 1 THEN "serialize" ELSE pc
    /\ UNCHANGED <<input, err, dsize, sectors, created, shortLeft, faultLeft, bootPos,
                   i, disk, table, vol, fs, calls, si, out, outFaults>>

(***************************************************************************)
(* Serialization: for sector in &*disk { self.out.write(sector); }         *)
(* One step per sector.  write() returns Ok(512), Ok(n) with n < 512, or   *)
(* Err; the result is not looked at.                                       *)
(***************************************************************************)
\* the output file with n bytes of sector idx appended
Emit(o, idx, n) ==
    IF n = 0 THEN o
    ELSE IF o # <<>> /\ n = SectorSize /\ Last(o).n = SectorSize /\ Last(o).hi = idx - 1
    THEN [o EXCEPT ![Len(o)].hi = idx]
    ELSE Append(o, [lo |-> idx, hi |-> idx, n |-> n])

AfterSector == IF si + 1 = sectors THEN "done" ELSE "serialize"

SerializeSector ==
    /\ pc = "serialize" /\ si < sectors
    /\ out' = Emit(out, si, SectorSize)
    /\ si' = si + 1
    /\ pc' = AfterSector
    /\ UNCHANGED <<input, err, dsize, sectors, created, shortLeft, faultLeft, bootPos,
                   i, disk, table, vol, fs, stack, calls, outFaults>>

\* Ok(n), n < 512, or Err(_): the loop goes on to the next sector
SerializeFault ==
    /\ pc = "serialize" /\ si < sectors
    /\ faultLeft > 0
    /\ \E n \in {0, 511} : out' = Emit(out, si, n)
    /\ outFaults' = outFaults \cup {si}
    /\ faultLeft' = faultLeft - 1
    /\ si' = si + 1
    /\ pc' = AfterSector
    /\ UNCHANGED <<input, err, dsize, sectors, created, shortLeft, bootPos, i, disk,
                   table, vol, fs, stack, calls>>

Next ==
    \/ ConfigNew
    \/ ExecStart
    \/ BootEof
    \/ BootCopy
    \/ BootReadError
    \/ SetPinfo
    \/ Format
    \/ Mount
    \/ RecurseDir
    \/ RecurseFile
    \/ RecurseOther
    \/ RecurseReturn
    \/ SerializeSector
    \/ SerializeFault

Spec == Init /\ [][Next]_vars


(***************************************************************************)
(* Panic messages by where they are raised                                 *)
(***************************************************************************)
ParseErrors == {"Unable to interpret size", "Unknown unit suffix"}
ConfigNewErrors ==
    ParseErrors \cup {"Bootloader unspecified", "Unable to open bootloader",
                      "Unable to open output file"}
SourceErrors == {"Unable to query source", "Source path is not a folder"}
MinSizeError == "Minimum disk size is 64KiB"

(***************************************************************************)
(* C1, C2: the bootloader copy                                             *)
(***************************************************************************)
\* C1: the bootloader copy never issues write_sector with an index >= 64
\* (the indices issued so far are 0..i-1), and no sector of the partition
\* [64, sectors) holds bootloader bytes.
C1_CopyBoundedToPreamble ==
    /\ i <= PartitionStart
    /\ \A k \in DOMAIN disk : k < PartitionStart

\* C2: after the copy the bootloader occupies exactly sectors 0..k-1,
\* k = ceil(bootloader_size / 512): write_sector was called k times and
\* sector j holds the bytes from offset 512 * j on, only the last one padded.
C2_CopyContiguous ==
    pc = "pinfo" =>
        LET k == CeilDiv(input.bootLen, SectorSize)
        IN  /\ i = k
            /\ \A j \in 0..(k - 1) :
                  ReadSector(disk, j) =
                      [off |-> SectorSize * j,
                       n |-> Min(SectorSize, input.bootLen - SectorSize * j)]
            /\ DOMAIN disk \subseteq 0..(k - 1)

(***************************************************************************)
(* C3, C4: the partition descriptor and the minimum size                   *)
(***************************************************************************)
ReachedFormatting ==
    \/ pc \in {"format", "mount", "recurse", "serialize", "done"}
    \/ pc = "panic" /\ err \notin ConfigNewErrors \cup SourceErrors
                                  \cup {MinSizeError, "Unable to read bootloader",
                                        "set_pinfo"}

\* C3: in every run that reaches formatting, slot 0 holds
\* {Fat32, start 64, size dsize / 512 - 64, bootable}, within the disk, and
\* stays so (the bootloader copy came first and does not overwrite it).
C3_Descriptor ==
    ReachedFormatting =>
        /\ sectors = dsize \div SectorSize
        /\ table[0] = [kind |-> "desc", format |-> "Fat32", start |-> 64,
                       size |-> (dsize \div SectorSize) - 64, bootable |-> TRUE]
        /\ table[0].size >= 0
        /\ table[0].start + table[0].size <= sectors

\* a finished run whose bootloader reached into the slot area of sector 0
C3_Witness ==
    /\ pc = "done"
    /\ input.bootLen > SlotOffset(0)
    /\ ReadSector(disk, 0).n > SlotOffset(0)
    /\ table[0].kind = "desc"

\* C4: a request of fewer than 128 sectors is rejected before the disk is
\* created and before anything is written; a request of 128 or more passes.
C4_MinimumSize ==
    /\ dsize \div SectorSize < 128 =>
          /\ pc \in {"new", "exec", "panic"}
          /\ ~created /\ i = 0 /\ disk = <<>> /\ table = EmptyTable
          /\ vol = NoVol /\ fs = NoFs /\ calls = <<>> /\ si = 0 /\ out = <<>>
    /\ (pc \notin {"new", "exec"} /\ err \notin ConfigNewErrors \cup SourceErrors
          /\ dsize \div SectorSize < 128) =>
          pc = "panic" /\ err = MinSizeError
    /\ err = MinSizeError => dsize \div SectorSize < 128

\* a parsed request of 0 < dsize / 512 < 128 sectors was rejected
C4_Witness ==
    pc = "panic" /\ err = MinSizeError /\ dsize \div SectorSize > 0


(***************************************************************************)
(* C5, C6: the FAT after make_dir / write_file.  The structures are walked *)
(* independently of the writer: chains are followed through the FAT from   *)
(* the start clusters that directory entries record.                       *)
(***************************************************************************)
Formatted == vol.nclusters >= 1

\* the clusters from c on, following the FAT; -1 marks a link that leaves
\* the data clusters, reaches a free cluster, or does not end within `fuel`
RECURSIVE ChainFrom(_, _, _)
ChainFrom(fat, c, fuel) ==
    IF c = EOC THEN <<>>
    ELSE IF fuel = 0 \/ c \notin Clusters(vol) \/ fat[c] = 0 THEN <<-1>>
    ELSE <<c>> \o ChainFrom(fat, fat[c], fuel - 1)

ChainOf(c) == ChainFrom(fs.fat, c, vol.nclusters)

\* the chains' owners: the root directory and every entry with a start cluster
ChainRefs ==
    {<<0, 0>>} \cup
    {<<d, k>> \in UNION {{d} \X (1..Len(fs.dirs[d])) : d \in DOMAIN fs.dirs} :
        /\ fs.dirs[d][k].name \notin {".", ".."}
        /\ fs.dirs[d][k].start # 0}

RefStart(r) == IF r = <<0, 0>> THEN RootCluster ELSE fs.dirs[r[1]][r[2]].start

NoRepeat(chain) ==
    \A a, b \in 1..Len(chain) : chain[a] = chain[b] => a = b

\* C5: every allocated cluster is on exactly one chain, every chain is
\* acyclic and ends in EOC, and clusters 0 and 1 are never handed out.
C5_FatInvariant ==
    Formatted =>
        /\ \A r \in ChainRefs :
              /\ -1 \notin Range(ChainOf(RefStart(r)))
              /\ NoRepeat(ChainOf(RefStart(r)))
              /\ Range(ChainOf(RefStart(r))) \subseteq Clusters(vol)
        /\ \A r1, r2 \in ChainRefs :
              r1 # r2 => Range(ChainOf(RefStart(r1))) \cap Range(ChainOf(RefStart(r2))) = {}
        /\ \A c \in Clusters(vol) :
              fs.fat[c] # 0 => \E r \in ChainRefs : c \in Range(ChainOf(RefStart(r)))
        /\ fs.fat[0] = FatReserved /\ fs.fat[1] = FatReserved
        /\ \A c \in DOMAIN fs.cdata : c \in Clusters(vol)

\* a finished mirroring with a failed call, a directory and a multi-cluster file
C5_Witness ==
    /\ pc = "done"
    /\ \E k \in 1..Len(calls) : calls[k].res = "DiskFull"
    /\ \E k \in 1..Len(calls) : calls[k].op = "make_dir" /\ calls[k].res = "Ok"
    /\ \E r \in ChainRefs : Len(ChainOf(RefStart(r))) >= 2

\* what an independent walk recovers for the file at `path`
ReadFile(path) ==
    LET parent == ResolveDir(fs, RootCluster, Front(path))
    IN  IF parent = 0 \/ Lookup(fs.dirs[parent], Last(path)) = 0
        THEN [ok |-> FALSE, size |-> 0, data |-> <<>>]
        ELSE LET e == fs.dirs[parent][Lookup(fs.dirs[parent], Last(path))]
                 chain == IF e.start = 0 THEN <<>> ELSE ChainOf(e.start)
             IN  [ok   |-> ~e.isDir /\ -1 \notin Range(chain),
                  size |-> e.size,
                  data |-> [j \in 1..Len(chain) |->
                              IF chain[j] \in DOMAIN fs.cdata
                              THEN fs.cdata[chain[j]] ELSE <<>>]]

\* the content of a host file of `size` bytes, cluster by cluster
Expected(path, size) ==
    [ok |-> TRUE, size |-> size,
     data |-> [j \in 1..CeilDiv(size, ClusterBytes(vol)) |-> <<path, j>>]]

WrittenReadable ==
    \A k \in 1..Len(calls) :
        (calls[k].op = "write_file" /\ calls[k].res = "Ok")
            => ReadFile(calls[k].path) = Expected(calls[k].path, calls[k].size)

WriteFileStep ==
    /\ Len(calls') = Len(calls) + 1
    /\ Last(calls').op = "write_file"

\* C6: a write_file returns DiskFull exactly when fewer than
\* ceil(len / cluster_size) clusters are free; such a call leaves the FAT,
\* the directories and the data as they were, and after every write_file
\* the files written before remain readable with their content.
C6_DiskFullRollback ==
    [][WriteFileStep =>
          /\ (Last(calls').res = "DiskFull")
                <=> (CeilDiv(Last(calls').size, ClusterBytes(vol)) > FreeCount(vol, fs))
          /\ Last(calls').res = "DiskFull" =>
                (fs'.fat = fs.fat /\ fs'.dirs = fs.dirs /\ fs'.cdata = fs.cdata)
          /\ WrittenReadable']_vars

\* a write_file failed with DiskFull after an earlier one had succeeded
C6_Witness ==
    \E k \in 1..Len(calls) :
        /\ calls[k].op = "write_file" /\ calls[k].res = "DiskFull"
        /\ \E j \in 1..(k - 1) :
              calls[j].op = "write_file" /\ calls[j].res = "Ok" /\ calls[j].size > 0


(***************************************************************************)
(* C7, C8: parse_size.  The documented reading of a size string: its       *)
(* leading decimal digits, and one of the four unit names in any case.     *)
(***************************************************************************)
RECURSIVE DigitsLen(_)
DigitsLen(s) ==
    IF s = <<>> \/ Head(s) \notin AsciiDigits THEN 0 ELSE 1 + DigitsLen(Tail(s))

SizeNumber(s) == SubSeq(s, 1, DigitsLen(s))
SizeSuffix(s) == SubSeq(s, DigitsLen(s) + 1, Len(s))

KbSpellings  == {<<k, b>> : k \in {"k", "K"}, b \in {"b", "B"}}
KibSpellings == {<<k, x, b>> : k \in {"k", "K"}, x \in {"i", "I"}, b \in {"b", "B"}}
MbSpellings  == {<<m, b>> : m \in {"m", "M"}, b \in {"b", "B"}}
MibSpellings == {<<m, x, b>> : m \in {"m", "M"}, x \in {"i", "I"}, b \in {"b", "B"}}

DocumentedFactor(x) ==
    IF x \in KbSpellings THEN 1000
    ELSE IF x \in KibSpellings THEN 1024
    ELSE IF x \in MbSpellings THEN 1000000
    ELSE IF x \in MibSpellings THEN 1048576
    ELSE 0

\* the number a decimal numeral of at most three digits denotes
NumberOf(d) ==
    IF Len(d) = 1 THEN DigitVal(d[1])
    ELSE IF Len(d) = 2 THEN 10 * DigitVal(d[1]) + DigitVal(d[2])
    ELSE 100 * DigitVal(d[1]) + 10 * DigitVal(d[2]) + DigitVal(d[3])

Parsed == pc # "new"

Accepted == Parsed /\ err \notin ConfigNewErrors

C9_Serialization ==
    /\ pc \in {"serialize", "done"} => stack = <<>>
    /\ pc = "done" => out = <<[lo |-> 0, hi |-> sectors - 1, n |-> SectorSize]>>
    /\ outFaults # {} => pc = "panic"

(***************************************************************************)
(* C10: the order of the calls of recurse                                  *)
(***************************************************************************)
\* C10: every make_dir / write_file for an entry inside a directory comes
\* after a make_dir of that directory that returned Ok; entries directly
\* under the source root need none; no write_file finds its parent missing.
C10_ParentFirst ==
    \A j \in 1..Len(calls) :
        /\ Len(calls[j].path) >= 1
        /\ Len(calls[j].path) > 1 =>
              \E k \in 1..(j - 1) :
                  /\ calls[k].op = "make_dir"
                  /\ calls[k].path = Front(calls[j].path)
                  /\ calls[k].res = "Ok"
        /\ calls[j].res # "NoParent"

\* a file three directories deep and a file directly under the root were written
C10_Witness ==
    /\ \E j \in 1..Len(calls) :
          calls[j].op = "write_file" /\ Len(calls[j].path) = 4 /\ calls[j].res = "Ok"
    /\ \E j \in 1..Len(calls) :
          calls[j].op = "write_file" /\ Len(calls[j].path) = 1 /\ calls[j].res = "Ok"

=============================================================================
